---- MODULE Spec2Model ----
(***************************************************************************)
(* Monte-Carlo estimation of pi: the checkpointing estimators              *)
(* calc_pi_serial and calc_pi (numba) of calculating_pi.py, and the        *)
(* distributed calc_pi of calculating_pi_mpi.py.                           *)
(*                                                                         *)
(* Uniform values of [0,1) are fixed-point numbers v/Grid, v in            *)
(* 0..Grid-1; an estimate 4*c/n is the pair <<4*c, n>>.                    *)
(***************************************************************************)
EXTENDS Integers, Sequences, FiniteSets, TLC

\* ---------------------------------------------------------------- bounds
MaxSamples == 5
MaxNeg == 1
MaxRate == 3
MaxSize == 3

Seeds == {0, 2}
SampleInputs == (0 - MaxNeg)..MaxSamples
RateInputs == (0 - MaxNeg)..MaxRate

\* --------------------------------------------------- python integer ops
\* a // b of Python (floor division), b # 0
PyFloorDiv(a, b) == IF b > 0 THEN a \div b ELSE (0 - a) \div (0 - b)

\* a % b of Python (the result has the sign of b), b # 0
PyMod(a, b) == a - b * PyFloorDiv(a, b)

\* ------------------------------------------------ the random generator
\* resolution of the uniform values: rand() returns v/Grid, 0 <= v < Grid
Grid == 5

\* np.random.seed(seed): the generator state is a function of the seed alone
seed_state(s) == s % 16

\* one step of the generator
rng_next(st) == (5 * st + 3) % 16

\* the uniform value produced from a generator state
rng_value(st) == st % Grid

\* np.random.rand(): <<value, new state>>
rand(st) == <<rng_value(rng_next(st)), rng_next(st)>>

\* np.random.rand(2): two values drawn one after the other, <<x, y, new state>>
rand2(st) == <<rand(st)[1], rand(rand(st)[2])[1], rand(rand(st)[2])[2]>>

\* floor of the square root
ISqrt(n) == CHOOSE r \in 0..n : r * r <= n /\ (r + 1) * (r + 1) > n

\* np.linalg.norm of the vector (x, y)/Grid, in units of 1/Grid
norm(x, y) == ISqrt(x * x + y * y)

\* calc_pi_serial: np.linalg.norm(np.random.rand(2)) < 1
in_circle_serial(x, y) == norm(x, y) < Grid

\* (x**2 + y**2) <= 1: the boundary counted as inside
in_circle_jit_le(x, y) == x * x + y * y <= Grid * Grid

\* calc_pi: (x**2 + y**2) < 1
in_circle_jit(x, y) == x * x + y * y < Grid * Grid

in_circle(f, x, y) == IF f = "serial" THEN in_circle_serial(x, y) ELSE in_circle_jit(x, y)

\* the generator a function draws from: NumPy's process-wide generator in
\* calc_pi_serial, numba's own generator inside the @njit calc_pi
generator(f) == IF f = "serial" THEN "np" ELSE "nb"

\* ------------------------------------------------------------ the state
VARIABLES
  pc,                  \* "idle", "loop", "done", "error"
  fn,                  \* the estimator running: "serial" or "jit"
  num_samples, seed, pi_collection_rate,
  rng,                 \* generator states, [np |-> .., nb |-> ..]
  i, num_in_circle, pi_values, num_pi_stored,
  pi,                  \* the estimate computed after the loop, <<>> before
  samples,             \* the points drawn by this call and their classification
  writes,              \* the checkpoint writes of this call, in order
  ref,                 \* an earlier completed call and what it returned
  report               \* what output_results printed for this call

lvars == <<pc, fn, num_samples, seed, pi_collection_rate, rng, i,
           num_in_circle, pi_values, num_pi_stored, pi, samples, writes, ref,
           report>>

\* nothing printed
NoReport == [config |-> <<>>, blocks |-> <<>>]

NoCall == [fn |-> "none", num_samples |-> 0, seed |-> 0, pi_collection_rate |-> 0,
           pi |-> <<>>, pi_values |-> <<>>, samples |-> <<>>]

\* num_in_circle after a sample: += 1 when the point is inside
add_hit(c, inside) == IF inside THEN c + 1 ELSE c

\* 4*c/k
estimate(c, k) == <<4 * c, k>>

\* (i - 1) % pi_collection_rate == 0: the test of a loop counted from 0
collect_off(k, r) == PyMod(k - 1, r) = 0

\* i % pi_collection_rate == 0
collect(k, r) == PyMod(k, r) = 0

\* np.zeros(k - 1): one slot short
zeros_short(k) == [j \in 1..(k - 1) |-> <<0, 1>>]

\* np.zeros(k + 1): one slot too many
zeros_long(k) == [j \in 1..(k + 1) |-> <<0, 1>>]

\* np.zeros(k)
zeros(k) == [j \in 1..k |-> <<0, 1>>]

LocalInit ==
  /\ pc = "idle"
  /\ fn = "none"
  /\ num_samples = 0 /\ seed = 0 /\ pi_collection_rate = 0
  /\ rng = [np |-> 0, nb |-> 0]
  /\ i = 0 /\ num_in_circle = 0 /\ pi_values = <<>> /\ num_pi_stored = 0
  /\ pi = <<>>
  /\ samples = <<>> /\ writes = <<>>
  /\ ref = NoCall
  /\ report = NoReport

\* Call without np.random.seed(seed): the generator is left where it was
Call_noseed(f, n, s, r) ==
  /\ pc = "idle"
  /\ fn' = f /\ num_samples' = n /\ seed' = s /\ pi_collection_rate' = r
  /\ num_in_circle' = 0
  /\ i' = 0 /\ num_pi_stored' = 0 /\ pi' = <<>>
  /\ samples' = <<>> /\ writes' = <<>>
  /\ IF r = 0 \/ PyFloorDiv(n, r) < 0
       THEN pc' = "error" /\ pi_values' = <<>>
       ELSE pc' = "loop" /\ pi_values' = zeros(PyFloorDiv(n, r))
  /\ UNCHANGED <<rng, ref, report>>

\* Entry of calc_pi_serial / calc_pi up to the loop: seed the generator,
\* clear the count, allocate pi_values.  num_samples // 0 raises
\* ZeroDivisionError and np.zeros of a negative length raises ValueError.
Call(f, n, s, r) ==
  /\ pc = "idle"
  /\ fn' = f /\ num_samples' = n /\ seed' = s /\ pi_collection_rate' = r
  /\ rng' = [rng EXCEPT ![generator(f)] = seed_state(s)]
  /\ num_in_circle' = 0
  /\ i' = 0 /\ num_pi_stored' = 0 /\ pi' = <<>>
  /\ samples' = <<>> /\ writes' = <<>>
  /\ IF r = 0 \/ PyFloorDiv(n, r) < 0
       THEN pc' = "error" /\ pi_values' = <<>>
       ELSE pc' = "loop" /\ pi_values' = zeros(PyFloorDiv(n, r))
  /\ UNCHANGED <<ref, report>>

\* the point drawn by one iteration, <<x, y, new generator state>>:
\* np.random.rand(2) in calc_pi_serial, x = rand() then y = rand() in calc_pi
draw_point(f, st) ==
  IF f = "serial"
    THEN rand2(st)
    ELSE LET x == rand(st)
             y == rand(x[2])
         IN <<x[1], y[1], y[2]>>

\* One iteration of the sampling loop, for i+1.
Iterate ==
  /\ pc = "loop"
  /\ i < num_samples
  /\ LET p == draw_point(fn, rng[generator(fn)])
         inside == in_circle(fn, p[1], p[2])
         k == i + 1
         c == add_hit(num_in_circle, inside)
     IN /\ i' = k
        /\ rng' = [rng EXCEPT ![generator(fn)] = p[3]]
        /\ num_in_circle' = c
        /\ samples' = Append(samples, [x |-> p[1], y |-> p[2], inside |-> inside])
        /\ IF collect(k, pi_collection_rate)
             THEN IF num_pi_stored + 1 \in DOMAIN pi_values
                    THEN /\ pi_values' = [pi_values EXCEPT ![num_pi_stored + 1] = estimate(c, k)]
                         /\ num_pi_stored' = num_pi_stored + 1
                         /\ writes' = Append(writes, [index |-> num_pi_stored, i |-> k, value |-> estimate(c, k)])
                         /\ pc' = "loop"
                    ELSE /\ pc' = "error"
                         /\ UNCHANGED <<pi_values, num_pi_stored, writes>>
             ELSE /\ pc' = "loop"
                  /\ UNCHANGED <<pi_values, num_pi_stored, writes>>
  /\ UNCHANGED <<fn, num_samples, seed, pi_collection_rate, pi, ref, report>>

\* After the loop: pi = 4*num_in_circle/num_samples (ZeroDivisionError for
\* num_samples = 0), then return pi, pi_values.
Finish ==
  /\ pc = "loop"
  /\ i >= num_samples
  /\ IF num_samples = 0
       THEN pc' = "error" /\ pi' = <<>>
       ELSE pc' = "done" /\ pi' = estimate(num_in_circle, num_samples)
  /\ UNCHANGED <<fn, num_samples, seed, pi_collection_rate, rng, i,
                 num_in_circle, pi_values, num_pi_stored, samples, writes, ref,
                 report>>

ThisCall == [fn |-> fn, num_samples |-> num_samples, seed |-> seed,
             pi_collection_rate |-> pi_collection_rate,
             pi |-> pi, pi_values |-> pi_values, samples |-> samples]

\* The caller takes the result (or the exception); the locals are gone.
Return ==
  /\ pc \in {"done", "error"}
  /\ pc' = "idle"
  /\ ref' \in (IF pc = "done" THEN {ref, ThisCall} ELSE {ref})
  /\ fn' = "none" /\ num_samples' = 0 /\ seed' = 0 /\ pi_collection_rate' = 0
  /\ i' = 0 /\ num_in_circle' = 0 /\ pi_values' = <<>> /\ num_pi_stored' = 0
  /\ pi' = <<>> /\ samples' = <<>> /\ writes' = <<>>
  /\ report' = NoReport
  /\ UNCHANGED rng

\* a - b on estimates
sub(a, b) == <<a[1] * b[2] - b[1] * a[2], a[2] * b[2]>>

\* a / b on estimates; a zero denominator stands for the inf or nan of floats
div(a, b) == <<a[1] * b[2], a[2] * b[1]>>

\* np.pi, to the resolution of the model
np_pi == <<355, 113>>

\* display_difference: the two values it prints
display_difference(original_value, new_value) ==
  [diff |-> sub(new_value, original_value),
   percentage |-> div(sub(new_value, original_value), original_value)]

\* evaluate_results: the block printed for one value; num_samples_used = -1
\* marks the final value
evaluate_results(value, num_samples_used) ==
  [final |-> (num_samples_used = -1),
   samples_used |-> num_samples_used,
   value |-> value,
   vs_pi |-> display_difference(np_pi, value)]

\* the block of the checkpoint at index j (from 0) of output_results' loop
checkpoint_block(values, j, r) ==
  [block |-> evaluate_results(values[j + 1], (j + 1) * r),
   has_prev |-> (j # 0),
   vs_prev |-> IF j # 0 THEN display_difference(values[j + 1], values[j])
                        ELSE [diff |-> <<0, 1>>, percentage |-> <<0, 1>>]]

\* output_results: the header, one block per checkpoint, the final block
output_results(p, values, n, s, r) ==
  [config |-> <<n, s, r>>,
   blocks |-> [k \in 1..(Len(values) + 1) |->
                 IF k <= Len(values)
                   THEN checkpoint_block(values, k - 1, r)
                   ELSE [block |-> evaluate_results(p, -1),
                         has_prev |-> FALSE,
                         vs_prev |-> [diff |-> <<0, 1>>, percentage |-> <<0, 1>>]]]]

\* __main__: the result of the call is printed by output_results.
Report ==
  /\ pc = "done"
  /\ report = NoReport
  /\ report' = output_results(pi, pi_values, num_samples, seed, pi_collection_rate)
  /\ UNCHANGED <<pc, fn, num_samples, seed, pi_collection_rate, rng, i,
                 num_in_circle, pi_values, num_pi_stored, pi, samples, writes, ref>>

\* Any other code of the process draws from a generator between two calls.
OtherDraw(g) ==
  /\ pc = "idle"
  /\ rng' = [rng EXCEPT ![g] = rand(rng[g])[2]]
  /\ UNCHANGED <<pc, fn, num_samples, seed, pi_collection_rate, i,
                 num_in_circle, pi_values, num_pi_stored, pi, samples, writes, ref,
                 report>>

\* ------------------------------------------------- distributed calc_pi
VARIABLES
  size,                \* comm.Get_size(), fixed at launch
  m_num_samples, m_seed,   \* the arguments every rank calls calc_pi with
  m_pc,                \* per rank: "start", "loop", "reduce", "returned", "failed"
  samples_per_proc,    \* per rank
  m_rng,               \* per rank: the state of the process's own generator
  m_i,                 \* per rank: iterations of the loop done
  m_num_in_circle,     \* per rank
  reduce_buf,          \* the contributions handed to comm.reduce, by rank
  total_in_circle,     \* what comm.reduce returned on rank 0
  m_ret                \* per rank: the value returned, <<>> for None

mvars == <<size, m_num_samples, m_seed, m_pc, samples_per_proc, m_rng, m_i,
           m_num_in_circle, reduce_buf, total_in_circle, m_ret>>

vars == <<lvars, mvars>>

Ranks == 0..(size - 1)

None == <<>>

\* the remainder added on every rank
share_all(n, sz, rank) == (n \div sz) + (n % sz)

\* the remainder dropped
share_floor(n, sz, rank) == n \div sz

\* samples_per_proc of a rank
share(n, sz, rank) ==
  IF rank = 0 THEN (n \div sz) + (n % sz) ELSE n \div sz

\* the seed a rank gives to its generator
rank_seed(s, rank) == s + rank

\* no reduction: the root's own count
mpi_sum_own(buf, R) == buf[0]

\* MPI.SUM over the contributions of the ranks of R
RECURSIVE mpi_sum(_, _)
mpi_sum(buf, R) ==
  IF R = {} THEN 0
  ELSE LET r == CHOOSE q \in R : TRUE IN buf[r] + mpi_sum(buf, R \ {r})

\* no distributed run
MpiOff ==
  /\ size = 0 /\ m_num_samples = 0 /\ m_seed = 0
  /\ m_pc = <<>> /\ samples_per_proc = <<>> /\ m_rng = <<>> /\ m_i = <<>>
  /\ m_num_in_circle = <<>> /\ reduce_buf = <<>> /\ total_in_circle = 0
  /\ m_ret = <<>>

\* mpiexec -n size: every rank is about to call calc_pi(num_samples, seed)
MpiInit ==
  /\ size \in 1..MaxSize
  /\ m_num_samples \in 1..MaxSamples
  /\ m_seed \in Seeds
  /\ m_pc = [r \in Ranks |-> "start"]
  /\ samples_per_proc = [r \in Ranks |-> 0]
  /\ m_rng = [r \in Ranks |-> 0]
  /\ m_i = [r \in Ranks |-> 0]
  /\ m_num_in_circle = [r \in Ranks |-> 0]
  /\ reduce_buf = <<>>
  /\ total_in_circle = 0
  /\ m_ret = [r \in Ranks |-> None]

\* Entry of calc_pi on a rank up to the loop.
MpiEnter(r) ==
  /\ m_pc[r] = "start"
  /\ samples_per_proc' = [samples_per_proc EXCEPT ![r] = share(m_num_samples, size, r)]
  /\ m_rng' = [m_rng EXCEPT ![r] = seed_state(rank_seed(m_seed, r))]
  /\ m_num_in_circle' = [m_num_in_circle EXCEPT ![r] = 0]
  /\ m_i' = [m_i EXCEPT ![r] = 0]
  /\ m_pc' = [m_pc EXCEPT ![r] = "loop"]
  /\ UNCHANGED <<size, m_num_samples, m_seed, reduce_buf, total_in_circle, m_ret, lvars>>

\* One iteration drawing from a generator shared by all the ranks (rank 0's).
MpiIterate_shared(r) ==
  /\ m_pc[r] = "loop"
  /\ m_i[r] < samples_per_proc[r]
  /\ LET p == rand2(m_rng[0])
     IN /\ m_rng' = [m_rng EXCEPT ![0] = p[3]]
        /\ m_num_in_circle' = [m_num_in_circle EXCEPT ![r] =
                                 add_hit(@, in_circle_serial(p[1], p[2]))]
  /\ m_i' = [m_i EXCEPT ![r] = @ + 1]
  /\ UNCHANGED <<size, m_num_samples, m_seed, m_pc, samples_per_proc, reduce_buf,
                 total_in_circle, m_ret, lvars>>

\* One iteration of the loop of a rank.
MpiIterate(r) ==
  /\ m_pc[r] = "loop"
  /\ m_i[r] < samples_per_proc[r]
  /\ LET p == rand2(m_rng[r])
     IN /\ m_rng' = [m_rng EXCEPT ![r] = p[3]]
        /\ m_num_in_circle' = [m_num_in_circle EXCEPT ![r] =
                                 add_hit(@, in_circle_serial(p[1], p[2]))]
  /\ m_i' = [m_i EXCEPT ![r] = @ + 1]
  /\ UNCHANGED <<size, m_num_samples, m_seed, m_pc, samples_per_proc, reduce_buf,
                 total_in_circle, m_ret, lvars>>

\* The loop is over: the rank enters comm.reduce with its num_in_circle.
MpiContribute(r) ==
  /\ m_pc[r] = "loop"
  /\ m_i[r] >= samples_per_proc[r]
  /\ reduce_buf' = reduce_buf @@ (r :> m_num_in_circle[r])
  /\ m_pc' = [m_pc EXCEPT ![r] = "reduce"]
  /\ UNCHANGED <<size, m_num_samples, m_seed, samples_per_proc, m_rng, m_i,
                 m_num_in_circle, total_in_circle, m_ret, lvars>>

\* the root does not wait for the other ranks
reduce_ready_root == 0 \in DOMAIN reduce_buf

\* the root waits for one contribution more than there are ranks
reduce_ready_extra == DOMAIN reduce_buf = 0..size

\* comm.reduce completes on the root once every rank has contributed.
reduce_ready == DOMAIN reduce_buf = Ranks

\* comm.reduce returns on rank 0, which computes and returns pi.
MpiRootReturn ==
  /\ 0 \in Ranks
  /\ m_pc[0] = "reduce"
  /\ reduce_ready
  /\ total_in_circle' = mpi_sum(reduce_buf, DOMAIN reduce_buf)
  /\ m_ret' = [m_ret EXCEPT ![0] = estimate(mpi_sum(reduce_buf, DOMAIN reduce_buf), m_num_samples)]
  /\ m_pc' = [m_pc EXCEPT ![0] = "returned"]
  /\ UNCHANGED <<size, m_num_samples, m_seed, samples_per_proc, m_rng, m_i,
                 m_num_in_circle, reduce_buf, lvars>>

\* comm.reduce returns on another rank, which returns None.
MpiWorkerReturn(r) ==
  /\ r # 0
  /\ m_pc[r] = "reduce"
  /\ m_ret' = [m_ret EXCEPT ![r] = None]
  /\ m_pc' = [m_pc EXCEPT ![r] = "returned"]
  /\ UNCHANGED <<size, m_num_samples, m_seed, samples_per_proc, m_rng, m_i,
                 m_num_in_circle, reduce_buf, total_in_circle, lvars>>

\* A process dies before it has contributed to the reduction.
MpiFail(r) ==
  /\ m_pc[r] \in {"start", "loop"}
  /\ m_pc' = [m_pc EXCEPT ![r] = "failed"]
  /\ UNCHANGED <<size, m_num_samples, m_seed, samples_per_proc, m_rng, m_i,
                 m_num_in_circle, reduce_buf, total_in_circle, m_ret, lvars>>

\* calc_pi_serial of calculating_pi_mpi.py: the count after k samples from
\* generator state st, and the value returned
RECURSIVE serial_count(_, _)
serial_count(k, st) ==
  IF k <= 0 THEN 0
  ELSE LET p == rand2(st)
       IN add_hit(0, in_circle_serial(p[1], p[2])) + serial_count(k - 1, p[3])

calc_pi_serial_mpi(n, s) == estimate(serial_count(n, seed_state(s)), n)

\* ------------------------------------------------------ specifications
\* A behaviour is a run of one program: calculating_pi.py (no MPI world,
\* size = 0) or calculating_pi_mpi.py under mpiexec -n size.
Init == LocalInit /\ (MpiOff \/ MpiInit)

Next ==
  \/ size = 0 /\ (\E f \in {"serial", "jit"}, n \in SampleInputs, s \in Seeds, r \in RateInputs : Call(f, n, s, r)) /\ UNCHANGED mvars
  \/ Iterate /\ UNCHANGED mvars
  \/ Finish /\ UNCHANGED mvars
  \/ Return /\ UNCHANGED mvars
  \/ Report /\ UNCHANGED mvars
  \/ size = 0 /\ (\E g \in {"np", "nb"} : OtherDraw(g)) /\ UNCHANGED mvars
  \/ \E r \in Ranks : MpiEnter(r)
  \/ \E r \in Ranks : MpiIterate(r)
  \/ \E r \in Ranks : MpiContribute(r)
  \/ MpiRootReturn
  \/ \E r \in Ranks : MpiWorkerReturn(r)
  \/ \E r \in Ranks : MpiFail(r)

Spec == Init /\ [][Next]_vars

\* The distributed program alone.
MInit == LocalInit /\ MpiInit

MNext ==
  \/ \E r \in Ranks : MpiEnter(r)
  \/ \E r \in Ranks : MpiIterate(r)
  \/ \E r \in Ranks : MpiContribute(r)
  \/ MpiRootReturn
  \/ \E r \in Ranks : MpiWorkerReturn(r)
  \/ \E r \in Ranks : MpiFail(r)

MpiSpec == MInit /\ [][MNext]_vars

\* The interpreter keeps running a loop it has entered, every MPI process
\* that has not failed keeps running, and a reduction that can complete does.
Fairness ==
  /\ WF_vars(Iterate /\ UNCHANGED mvars)
  /\ WF_vars(Finish /\ UNCHANGED mvars)
  /\ WF_vars(MpiRootReturn)
  /\ \A r \in 0..(MaxSize - 1) :
       /\ WF_vars(r \in Ranks /\ MpiEnter(r))
       /\ WF_vars(r \in Ranks /\ MpiIterate(r))
       /\ WF_vars(r \in Ranks /\ MpiContribute(r))
       /\ WF_vars(r \in Ranks /\ MpiWorkerReturn(r))

\* One run to its end: a call of an estimator from the interpreter, or the
\* distributed run, without the test's memory of earlier calls and without
\* foreign draws between calls.
LiveNext ==
  \/ size = 0 /\ (\E f \in {"serial", "jit"}, n \in SampleInputs, s \in Seeds, r \in RateInputs : Call(f, n, s, r)) /\ UNCHANGED mvars
  \/ Iterate /\ UNCHANGED mvars
  \/ Finish /\ UNCHANGED mvars
  \/ Return /\ ref' = ref /\ UNCHANGED mvars
  \/ \E r \in Ranks : MpiEnter(r)
  \/ \E r \in Ranks : MpiIterate(r)
  \/ \E r \in Ranks : MpiContribute(r)
  \/ MpiRootReturn
  \/ \E r \in Ranks : MpiWorkerReturn(r)
  \/ \E r \in Ranks : MpiFail(r)

LiveSpec == Init /\ [][LiveNext]_vars /\ Fairness

\* ------------------------------------------------------------- claims
\* the call in progress has a valid configuration and was not rejected
ValidRun == pc \in {"loop", "done"} /\ num_samples >= 1 /\ pi_collection_rate >= 1

\* the inside-count after exactly k samples of this call
CountInside(k) == Cardinality({j \in 1..k : samples[j].inside})

\* the earlier call had the same (num_samples, seed, pi_collection_rate)
SameConfig ==
  /\ ref.num_samples = num_samples
  /\ ref.seed = seed
  /\ ref.pi_collection_rate = pi_collection_rate

\* C1: for num_samples >= 1 and pi_collection_rate >= 1 the checkpoint
\* sequence has length num_samples // pi_collection_rate, and when the loop
\* ends exactly that many checkpoints have been written.
C1_CheckpointCount ==
  ValidRun =>
    /\ Len(pi_values) = num_samples \div pi_collection_rate
    /\ (i = num_samples =>
          /\ num_pi_stored = num_samples \div pi_collection_rate
          /\ Len(writes) = num_samples \div pi_collection_rate)

C1_Witness ==
  /\ pc = "done"
  /\ pi_collection_rate > 1
  /\ num_samples > pi_collection_rate
  /\ num_samples % pi_collection_rate # 0
  /\ num_pi_stored = 1

\* C2: a second call of the same estimator with the same configuration
\* returns the same estimate and the same checkpoint sequence as the first,
\* whatever the generators went through in between.
C2_Reproducible ==
  (pc = "done" /\ ref.fn = fn /\ SameConfig) =>
    /\ pi = ref.pi
    /\ pi_values = ref.pi_values

C2_Witness ==
  /\ pc = "done"
  /\ ref.fn = fn
  /\ SameConfig
  /\ num_samples >= 2
  /\ Len(pi_values) >= 1

\* C3: the inside-count never exceeds the number of samples drawn, in the
\* local loops and on every rank, the reduced total never exceeds
\* num_samples, and every final estimate lies in [0, 4].
C3_EstimateRange ==
  /\ ValidRun =>
       /\ 0 <= num_in_circle /\ num_in_circle <= i /\ i <= num_samples
       /\ (pc = "done" => 0 <= pi[1] /\ pi[1] <= 4 * pi[2] /\ pi[2] = num_samples)
  /\ \A r \in Ranks :
       /\ 0 <= m_num_in_circle[r] /\ m_num_in_circle[r] <= m_i[r]
       /\ m_i[r] <= m_num_samples
  /\ (0 \in Ranks /\ m_pc[0] = "returned") =>
       /\ 0 <= total_in_circle /\ total_in_circle <= m_num_samples
       /\ 0 <= m_ret[0][1] /\ m_ret[0][1] <= 4 * m_ret[0][2]
       /\ m_ret[0][2] = m_num_samples

C3_Witness ==
  /\ pc = "done"
  /\ num_samples >= 2
  /\ 0 < num_in_circle /\ num_in_circle < num_samples
  /\ pi = <<4 * num_in_circle, num_samples>>

\* the sum of f over the ranks of R
RECURSIVE SumOver(_, _)
SumOver(f, R) ==
  IF R = {} THEN 0
  ELSE LET r == CHOOSE q \in R : TRUE IN f[r] + SumOver(f, R \ {r})

\* the rank has computed its share
Entered(r) == m_pc[r] \in {"loop", "reduce", "returned"}

\* C4: every rank other than 0 samples num_samples // size points, rank 0
\* samples num_samples // size + num_samples % size, and the shares of all
\* the ranks add up to num_samples.
C4_Shares ==
  /\ \A r \in Ranks :
       /\ Entered(r) =>
            samples_per_proc[r] = (m_num_samples \div size)
                                    + (IF r = 0 THEN m_num_samples % size ELSE 0)
       /\ m_pc[r] \in {"reduce", "returned"} => m_i[r] = samples_per_proc[r]
  /\ (\A r \in Ranks : Entered(r)) => SumOver(samples_per_proc, Ranks) = m_num_samples

C4_Witness ==
  /\ size > m_num_samples
  /\ size >= 3
  /\ \A r \in Ranks : m_pc[r] \in {"reduce", "returned"}
  /\ samples_per_proc[0] = m_num_samples
  /\ m_i[0] = m_num_samples

\* C5: rank 0 returns 4 * (sum of num_in_circle over all ranks) / num_samples
\* and every other rank returns None.
C5_CoordinatorResult ==
  /\ (0 \in Ranks /\ m_pc[0] = "returned") =>
       m_ret[0] = <<4 * SumOver(m_num_in_circle, Ranks), m_num_samples>>
  /\ \A r \in Ranks \ {0} : m_pc[r] = "returned" => m_ret[r] = None

C5_Witness ==
  /\ size >= 2
  /\ \A r \in Ranks : m_pc[r] = "returned"
  /\ \A r \in Ranks : m_num_in_circle[r] >= 1
  /\ m_ret[0] # None

\* C6: on every rank that has returned, the distributed calc_pi returned
\* what calc_pi_serial returns for the same num_samples and seed.
C6_DistributedEqualsSerial ==
  \A r \in Ranks :
    m_pc[r] = "returned" => m_ret[r] = calc_pi_serial_mpi(m_num_samples, m_seed)

\* C7: a call with num_samples < 1 or pi_collection_rate < 1 is rejected
\* with an error before sampling: it draws nothing, counts nothing and
\* returns no estimate.
C7_InvalidRejected ==
  (fn # "none" /\ (num_samples < 1 \/ pi_collection_rate < 1)) =>
    /\ pc # "done"
    /\ samples = <<>>
    /\ num_in_circle = 0
    /\ pi = <<>>

\* C8: for the same configuration calc_pi_serial and the @njit calc_pi draw
\* the same points in the same order, classify each of them the same way
\* and return equal estimates and equal checkpoint sequences.
C8_SerialEqualsJit ==
  (pc = "done" /\ ref.fn # "none" /\ ref.fn # fn /\ SameConfig) =>
    /\ samples = ref.samples
    /\ pi = ref.pi
    /\ pi_values = ref.pi_values

C8_Witness ==
  /\ pc = "done"
  /\ ref.fn # "none" /\ ref.fn # fn
  /\ SameConfig
  /\ Len(pi_values) >= 1
  /\ \E k \in 1..Len(samples) :
       samples[k].x * samples[k].x + samples[k].y * samples[k].y = Grid * Grid
  /\ \E k \in 1..Len(samples) : samples[k].inside

\* C9: rank 0 returns only after every rank has finished its loop and
\* contributed to the reduction, its value is computed from all the partial
\* counts, and when a rank has failed before contributing no rank has an
\* estimate.
C9_NoPartialAggregate ==
  /\ (0 \in Ranks /\ m_pc[0] = "returned") =>
       /\ \A r \in Ranks :
            /\ m_pc[r] \in {"reduce", "returned"}
            /\ m_i[r] = samples_per_proc[r]
            /\ r \in DOMAIN reduce_buf
       /\ total_in_circle = SumOver(m_num_in_circle, Ranks)
  /\ (\E r \in Ranks : m_pc[r] = "failed") => \A r \in Ranks : m_ret[r] = None

C9_Witness ==
  /\ size >= 2
  /\ m_pc[0] = "reduce"
  /\ \E r \in Ranks : m_pc[r] = "failed"
  /\ \E r \in Ranks \ {0} : m_pc[r] = "returned"
  /\ m_ret[0] = None

\* C10: the k-th checkpoint is written at iteration i = k * pi_collection_rate,
\* into slot k, with the value 4 * (inside-count after i samples) / i; the
\* writes happen in increasing i, every slot keeps the value written to it,
\* and the slots not yet reached still hold zero.
C10_Checkpoints ==
  ValidRun =>
    /\ Len(writes) = i \div pi_collection_rate
    /\ \A k \in 1..Len(writes) :
         /\ writes[k].i = k * pi_collection_rate
         /\ writes[k].index = k - 1
         /\ writes[k].value = <<4 * CountInside(k * pi_collection_rate), k * pi_collection_rate>>
         /\ pi_values[k] = writes[k].value
    /\ \A k \in (Len(writes) + 1)..Len(pi_values) : pi_values[k] = <<0, 1>>

C10_Witness ==
  /\ pc = "done"
  /\ pi_collection_rate >= 2
  /\ Len(writes) >= 2
  /\ num_samples % pi_collection_rate # 0
  /\ CountInside(pi_collection_rate) < CountInside(2 * pi_collection_rate)

\* the inside-count a rank ends with, from its own share and seed alone
RankCount(r) ==
  serial_count((m_num_samples \div size) + (IF r = 0 THEN m_num_samples % size ELSE 0),
               seed_state(m_seed + r))

\* C11: whatever the interleaving of the ranks' steps and the order of their
\* contributions, every contribution is the count the rank gets from its own
\* share and seed, and rank 0 returns 4 * (sum of those counts) / num_samples,
\* a function of (num_samples, seed, size) alone.
C11_InterleavingIndependent ==
  /\ \A r \in DOMAIN reduce_buf : reduce_buf[r] = RankCount(r)
  /\ (0 \in Ranks /\ m_pc[0] = "returned") =>
       /\ total_in_circle = SumOver([r \in Ranks |-> RankCount(r)], Ranks)
       /\ m_ret[0] = <<4 * SumOver([r \in Ranks |-> RankCount(r)], Ranks), m_num_samples>>

C11_Witness ==
  /\ size >= 3
  /\ m_pc[0] = "returned"
  /\ \A r \in Ranks : samples_per_proc[r] >= 1
  /\ \E r \in Ranks : m_num_in_circle[r] < samples_per_proc[r]
  /\ \E r \in Ranks : m_num_in_circle[r] >= 1

\* C14: after every iteration i of a call with num_samples >= 1 and
\* pi_collection_rate >= 1, num_pi_stored = i // pi_collection_rate; every
\* write went to an index within 0 .. num_samples // pi_collection_rate - 1,
\* and no such call ends in an out-of-bounds write.
C14_WritesInBounds ==
  (fn # "none" /\ num_samples >= 1 /\ pi_collection_rate >= 1) =>
    /\ pc # "error"
    /\ num_pi_stored = i \div pi_collection_rate
    /\ \A k \in 1..Len(writes) :
         /\ 0 <= writes[k].index
         /\ writes[k].index < num_samples \div pi_collection_rate
         /\ writes[k].index + 1 \in DOMAIN pi_values

C14_Witness ==
  /\ pc = "loop"
  /\ i = num_samples
  /\ pi_collection_rate >= 2
  /\ num_samples % pi_collection_rate = 0
  /\ Len(writes) >= 2
  /\ writes[Len(writes)].index = (num_samples \div pi_collection_rate) - 1

\* equal values of two fractions
SameValue(a, b) == a[1] * b[2] = b[1] * a[2]

\* C13: output_results prints one block per checkpoint, in order, the k-th
\* labelled k * pi_collection_rate samples, then one final block; every
\* checkpoint block after the first reports (this checkpoint - previous
\* checkpoint) and that difference as a fraction of the previous checkpoint.
C13_Report ==
  (ValidRun /\ report # NoReport) =>
    /\ Len(report.blocks) = Len(pi_values) + 1
    /\ report.blocks[Len(report.blocks)].block.final
    /\ report.blocks[Len(report.blocks)].block.value = pi
    /\ \A k \in 1..Len(pi_values) :
         /\ ~report.blocks[k].block.final
         /\ report.blocks[k].block.samples_used = k * pi_collection_rate
         /\ report.blocks[k].block.value = pi_values[k]
         /\ report.blocks[k].has_prev = (k > 1)
         /\ k > 1 =>
              /\ SameValue(report.blocks[k].vs_prev.diff,
                           <<pi_values[k][1] * pi_values[k - 1][2]
                               - pi_values[k - 1][1] * pi_values[k][2],
                             pi_values[k][2] * pi_values[k - 1][2]>>)
              /\ (pi_values[k - 1][1] # 0 /\ pi_values[k][1] # 0) =>
                   SameValue(report.blocks[k].vs_prev.percentage,
                             <<(pi_values[k][1] * pi_values[k - 1][2]
                                  - pi_values[k - 1][1] * pi_values[k][2]) * pi_values[k - 1][2],
                               pi_values[k][2] * pi_values[k - 1][2] * pi_values[k - 1][1]>>)

\* the generator state k steps after st
RECURSIVE advance(_, _)
advance(st, k) == IF k <= 0 THEN st ELSE advance((5 * st + 3) % 16, k - 1)

\* a local call with a valid configuration has returned after exactly
\* num_samples iterations and 2 * num_samples draws
LocalDone ==
  /\ pc = "done"
  /\ i = num_samples
  /\ Len(samples) = num_samples
  /\ rng[generator(fn)] = advance(seed % 16, 2 * num_samples)

\* C12: a local call with valid input runs exactly num_samples iterations,
\* two draws each, and then returns; in the distributed run every rank that
\* does not fail finishes its share and reaches the reduction, and rank 0
\* returns its estimate unless some rank has failed.
C12_Terminates ==
  /\ [](ValidRun /\ pc = "done" => LocalDone)
  /\ (ValidRun ~> LocalDone)
  /\ \A r \in 0..(MaxSize - 1) :
       <>(r \notin Ranks
            \/ m_pc[r] = "failed"
            \/ (m_pc[r] \in {"reduce", "returned"} /\ m_i[r] = samples_per_proc[r]))
  /\ <>(0 \notin Ranks
          \/ (m_pc[0] = "returned" /\ m_ret[0] # None)
          \/ \E q \in Ranks : m_pc[q] = "failed")

C12_Witness ==
  /\ size >= 2
  /\ \A r \in Ranks : m_pc[r] = "returned" /\ m_i[r] = samples_per_proc[r]
  /\ samples_per_proc[0] > samples_per_proc[1]
  /\ m_ret[0] # None

====
